---- MODULE Spec2Model ----
(***************************************************************************)
(* Model of kinesis/base.py (class Base): the connection state machine     *)
(* (get_conn, _get_reconn_helper, start, _create_stream) and the shard     *)
(* synchronisation (sync_shards, set_shard_sync_state), run by several     *)
(* asyncio tasks that share one Base instance.                             *)
(*                                                                         *)
(* Every action is one run of a task between two suspension points         *)
(* (awaits).  An exception travels up to its handler inside the action     *)
(* that raised it, since no await lies on the way.                         *)
(*                                                                         *)
(* The code reads time.monotonic() only through differences: the time     *)
(* since _reconnect_timeout, the time since shard_refresh_monotonic, the   *)
(* rest of a sleep, the rest of timeout(60).  The model keeps exactly      *)
(* these, in seconds, and lets them move in steps of TickStep; an elapsed  *)
(* time stops growing one step beyond the threshold it is compared with.   *)
(***************************************************************************)
EXTENDS Integers, Sequences, FiniteSets, TLC

\* ------------------------------------------------------------- bounds
NumTasks == 2
MaxAttempts == 6

Tasks == 1..NumTasks

\* ------------------------------------------------- program constants
InitialBackoff == 5
ReconnectCooldown == 120
StartTimeout == 60
\* the clock advances by the smallest whole delay the code sleeps
TickStep == InitialBackoff

\* retry_limit is None or an int: <<>> stands for None, <<n>> for the int n
NoLimit == <<>>
IsInt(x) == Len(x) = 1

\* --------------------------------------------------------- the service
StreamStatuses == {"ACTIVE", "CREATING", "UPDATING", "DELETING"}
ShardLists == {<<"s1">>, <<"s1", "s2">>, <<"s3", "s4">>}
NoInfo == [err |-> "none", StreamStatus |-> "none", Shards |-> <<>>]

\* what client.describe_stream can give get_stream_description
DescribeAnswers ==
    {[err |-> e, StreamStatus |-> "none", Shards |-> <<>>] :
        e \in {"StreamDoesNotExist", "ClientError"}}
    \cup {[err |-> "none", StreamStatus |-> s, Shards |-> l] :
            s \in StreamStatuses, l \in ShardLists}

\* what client.create_stream can answer
CreateAnswers == {"ok", "ResourceInUseException", "LimitExceededException", "OtherClientError"}

VARIABLES
    \* configuration, Base.__init__
    retry_limit, expo_backoff, expo_backoff_limit, create_stream,
    create_stream_shards, shard_refresh_timer,
    \* fields of the instance
    client, shards, stream_status, shards_status,
    conn_lock, shards_lock,
    \* time.monotonic() - self._reconnect_timeout and
    \* time.monotonic() - self.shard_refresh_monotonic
    reconnect_elapsed, refresh_elapsed,
    \* each task: its position and the locals of the call it is in
    pc, ctx, backoff_delay, conn_attempts, branch, stream_info,
    \* each task: whether start()'s local stream_status is bound (line 142)
    polled,
    \* each task: what is left of its backoff sleep and of its timeout(60)
    sleep_left, timeout_left,
    \* what the last call of each task ended with: an exception, or "ok"
    \* (get_conn returned, sync_shards synchronised), "noop" (sync_shards
    \* found nothing due), "skipped" (sync_shards put the resync off)
    result,
    \* history of the call in progress (observers, never read by the program)
    via, attempts, fails, lastErr, waited, splitCalls, mergeCalls, handlerArg,
    localAtCompare, initSyncs,
    \* no time has passed since a startup last saw the stream ACTIVE (observer)
    justConnected

confVars == <<retry_limit, expo_backoff, expo_backoff_limit,
              create_stream_shards, shard_refresh_timer>>
connVars == <<client, stream_status, conn_lock, reconnect_elapsed>>
connLocals == <<ctx, backoff_delay, conn_attempts, sleep_left, timeout_left,
                polled>>
connHist == <<via, attempts, fails, lastErr, waited>>
syncVars == <<shards_lock, refresh_elapsed>>
syncLocals == <<branch, stream_info>>
syncHist == <<splitCalls, mergeCalls, handlerArg, localAtCompare>>

vars == <<retry_limit, expo_backoff, expo_backoff_limit, create_stream,
          create_stream_shards, shard_refresh_timer,
          client, shards, stream_status, shards_status,
          conn_lock, shards_lock, reconnect_elapsed, refresh_elapsed,
          pc, ctx, backoff_delay, conn_attempts, branch, stream_info,
          sleep_left, timeout_left, result,
          via, attempts, fails, lastErr, waited, splitCalls, mergeCalls,
          handlerArg, localAtCompare, initSyncs, polled, justConnected>>

\* ---------------------------------------------------------------- Init
\* the configurations explored: Base.__init__'s keyword arguments
RetryLimits == {NoLimit, <<1>>, <<3>>}
ExpoBackoffs == {0, 5, 30}
ShardCounts == {0, 1}

InitState ==
    /\ client = "none"
    /\ shards = <<>>
    /\ stream_status = "INITIALIZE"
    /\ shards_status = "WAIT"
    /\ conn_lock = 0
    /\ shards_lock = 0
    /\ reconnect_elapsed = 0
    /\ refresh_elapsed = 0
    /\ pc = [t \in Tasks |-> "idle"]
    /\ ctx = [t \in Tasks |-> "none"]
    /\ backoff_delay = [t \in Tasks |-> 0]
    /\ conn_attempts = [t \in Tasks |-> 0]
    /\ sleep_left = [t \in Tasks |-> 0]
    /\ timeout_left = [t \in Tasks |-> 0]
    /\ branch = [t \in Tasks |-> "none"]
    /\ stream_info = [t \in Tasks |-> NoInfo]
    /\ result = [t \in Tasks |-> "none"]
    /\ via = [t \in Tasks |-> "none"]
    /\ attempts = [t \in Tasks |-> 0]
    /\ fails = [t \in Tasks |-> 0]
    /\ lastErr = [t \in Tasks |-> "none"]
    /\ waited = [t \in Tasks |-> FALSE]
    /\ splitCalls = [t \in Tasks |-> 0]
    /\ mergeCalls = [t \in Tasks |-> 0]
    /\ handlerArg = [t \in Tasks |-> <<>>]
    /\ localAtCompare = [t \in Tasks |-> <<>>]
    /\ initSyncs = 0
    /\ polled = [t \in Tasks |-> FALSE]
    /\ justConnected = FALSE

\* one configuration that takes every path of both sides
InitBoth ==
    /\ InitState
    /\ retry_limit = <<1>>
    /\ expo_backoff = 0
    /\ expo_backoff_limit = 120
    /\ create_stream = TRUE
    /\ create_stream_shards = 1
    /\ shard_refresh_timer = 5

Init ==
    /\ InitState
    /\ retry_limit \in RetryLimits
    /\ expo_backoff \in ExpoBackoffs
    /\ expo_backoff_limit = 120
    /\ create_stream \in BOOLEAN
    /\ create_stream_shards \in ShardCounts
    /\ shard_refresh_timer = 5

\* ------------------------------------------------- the connection side

\* get_conn line 190-191: ACTIVE and the cooldown has elapsed
CooldownElapsed ==
    stream_status = "ACTIVE" /\ reconnect_elapsed > ReconnectCooldown

\* fault variant: StreamDoesNotExist is retried like any other failure
IsPermanentNever(err) == FALSE

\* _get_reconn_helper line 220: the failure that is re-raised, never retried
IsPermanent(err) == err = "StreamDoesNotExist"

\* fault variant: the limit test is off by one ("> retry_limit + 1")
ExhaustedLate(n) == IsInt(retry_limit) /\ n >= (retry_limit[1] + 2)

\* fault variant: a missing retry_limit counts as a limit of 3
ExhaustedByDefault(n) ==
    n >= (IF IsInt(retry_limit) THEN retry_limit[1] ELSE 3) + 1

\* _get_reconn_helper lines 224-225, n the incremented conn_attempts
Exhausted(n) == IsInt(retry_limit) /\ n >= (retry_limit[1] + 1)

\* fault variant: the ceiling expo_backoff_limit is not applied
NextBackoffUncapped(n, prev) ==
    IF expo_backoff # 0 THEN (n * n) * expo_backoff ELSE prev

\* _get_reconn_helper lines 230-233, n the incremented conn_attempts
NextBackoff(n, prev) ==
    IF expo_backoff # 0
    THEN LET d == (n * n) * expo_backoff
         IN  IF d >= expo_backoff_limit THEN expo_backoff_limit ELSE d
    ELSE prev

\* the locals of task t's get_conn call
SetLocals(t, p, c, bd, ca, wk, dl) ==
    /\ pc' = [pc EXCEPT ![t] = p]
    /\ ctx' = [ctx EXCEPT ![t] = c]
    /\ backoff_delay' = [backoff_delay EXCEPT ![t] = bd]
    /\ conn_attempts' = [conn_attempts EXCEPT ![t] = ca]
    /\ sleep_left' = [sleep_left EXCEPT ![t] = wk]
    /\ timeout_left' = [timeout_left EXCEPT ![t] = dl]
    /\ polled' = [polled EXCEPT ![t] = FALSE]

\* get_conn ends (normally, res = "ok", or by the exception res): the
\* "async with self._conn_lock" block releases the lock on the way out.
\* The history of the call is dropped with it.
LeaveGetConn(t, res, st, cl) ==
    /\ SetLocals(t, "idle", "none", 0, 0, 0, 0)
    /\ result' = [result EXCEPT ![t] = res]
    /\ conn_lock' = 0
    /\ stream_status' = st
    /\ client' = cl
    /\ UNCHANGED reconnect_elapsed
    /\ via' = [via EXCEPT ![t] = "none"]
    /\ attempts' = [attempts EXCEPT ![t] = 0]
    /\ fails' = [fails EXCEPT ![t] = 0]
    /\ lastErr' = [lastErr EXCEPT ![t] = "none"]

\* one turn of the reconnect loop up to its sleep, lines 208-213: the
\* timestamp is taken before the sleep; d the delay, n the attempt number
LoopTurn(t, d, n) ==
    /\ SetLocals(t, "reconn_sleep", "reconn", d, n, d, 0)
    /\ reconnect_elapsed' = 0

\* _get_reconn_helper lines 203-213: up to the first backoff sleep
EnterReconn(t) ==
    /\ stream_status' = "RECONNECT"
    /\ client' = "closed"
    /\ LoopTurn(t, InitialBackoff, 1)
    /\ conn_lock' = t
    /\ result' = [result EXCEPT ![t] = "none"]

\* the history of a call that goes on after start() raised err
NoteFailure(t, err) ==
    /\ lastErr' = [lastErr EXCEPT ![t] = err]
    /\ fails' = [fails EXCEPT ![t] = IF ctx[t] = "reconn" THEN @ + 1 ELSE @]
    /\ UNCHANGED <<via, attempts, waited>>

\* start() raised err to its caller in get_conn or _get_reconn_helper;
\* cl is the transport handle as start left it
StartFailed(t, err, cl) ==
    IF IsPermanent(err)
    THEN \* get_conn lines 182-185, _get_reconn_helper lines 220-221
         /\ LeaveGetConn(t, err, stream_status, cl)
         /\ waited' = [waited EXCEPT ![t] = FALSE]
    ELSE IF ctx[t] = "init"
    THEN \* get_conn lines 186-188
         /\ EnterReconn(t)
         /\ NoteFailure(t, err)
    ELSE \* _get_reconn_helper lines 222-234
         LET n == conn_attempts[t] + 1 IN
         IF Exhausted(n)
         THEN /\ LeaveGetConn(t, "ConnectionError", stream_status, "closed")
              /\ waited' = [waited EXCEPT ![t] = FALSE]
         ELSE /\ n <= MaxAttempts
              /\ LoopTurn(t, NextBackoff(n, backoff_delay[t]), n)
              /\ client' = "closed"
              /\ result' = [result EXCEPT ![t] = "none"]
              /\ UNCHANGED <<conn_lock, stream_status>>
              /\ NoteFailure(t, err)

\* start() returned normally, leaving the connection state st: get_conn
\* (line 181) or the reconnect loop (line 218, break) goes on to return.
\* A task that waited for the lock through a reconnect cycle which the
\* cooldown started and which ended with the stream seen ACTIVE is marked.
StartReturned(t, st) ==
    /\ LeaveGetConn(t, "ok", st, client)
    /\ waited' = [u \in Tasks |->
                    IF u = t THEN FALSE
                    ELSE waited[u] \/ (st = "ACTIVE" /\ via[t] = "cooldown"
                                        /\ pc[u] = "conn_wait")]

\* the body of get_conn once the lock is held, up to its first await
\* (lines 178-198)
GetConnBody(t) ==
    IF stream_status = "INITIALIZE"
    THEN /\ SetLocals(t, "get_client", "init", 0, 0, 0, 0)
         /\ conn_lock' = t
         /\ via' = [via EXCEPT ![t] = "init"]
         /\ result' = [result EXCEPT ![t] = "none"]
         /\ UNCHANGED <<client, stream_status, reconnect_elapsed, attempts,
                        fails, lastErr, waited>>
    ELSE IF CooldownElapsed
    THEN /\ EnterReconn(t)
         /\ via' = [via EXCEPT ![t] = "cooldown"]
         /\ UNCHANGED <<attempts, fails, lastErr, waited>>
    ELSE /\ LeaveGetConn(t, "ok", stream_status, client)
         /\ waited' = [waited EXCEPT ![t] = FALSE]

othersOfConn == <<confVars, create_stream, shards, shards_status, syncVars,
                  syncLocals, syncHist, initSyncs, justConnected>>

\* a task calls get_conn: "async with self._conn_lock" (line 172) goes
\* straight on when the lock is free and nobody waits for it
CallGetConn(t) ==
    /\ pc[t] = "idle"
    /\ IF conn_lock = 0 /\ \A u \in Tasks : pc[u] # "conn_wait"
       THEN GetConnBody(t)
       ELSE /\ SetLocals(t, "conn_wait", "none", 0, 0, 0, 0)
            /\ result' = [result EXCEPT ![t] = "none"]
            /\ UNCHANGED <<connVars, connHist>>
    /\ UNCHANGED othersOfConn

\* a waiting task gets the connection lock
AcquireConn(t) ==
    /\ pc[t] = "conn_wait"
    /\ conn_lock = 0
    /\ GetConnBody(t)
    /\ UNCHANGED othersOfConn

\* the backoff sleep of the reconnect loop is over (line 213): start() is
\* called (line 214) and runs up to its first await, in get_client
WakeReconn(t) ==
    /\ pc[t] = "reconn_sleep"
    /\ sleep_left[t] = 0
    /\ pc' = [pc EXCEPT ![t] = "get_client"]
    /\ attempts' = [attempts EXCEPT ![t] = @ + 1]
    /\ UNCHANGED <<ctx, backoff_delay, conn_attempts, sleep_left, timeout_left,
                   polled, result, connVars, via, fails, lastErr, waited>>
    /\ UNCHANGED othersOfConn

othersOfStart == <<confVars, syncVars, syncLocals, syncHist>>

\* "async with timeout(60)" is entered (line 138) and describe_stream awaited
EnterPoll(t, cl) ==
    /\ SetLocals(t, "describe", ctx[t], backoff_delay[t], conn_attempts[t],
                 0, StartTimeout)
    /\ client' = cl
    /\ UNCHANGED <<stream_status, conn_lock, reconnect_elapsed, result,
                   connHist>>

\* start() lines 123-127: the client is built (ok) or building it fails;
\* _create_stream's shard count check (line 244) follows without an await
GetClient(t, ok) ==
    /\ pc[t] = "get_client"
    /\ IF ~ok
       THEN StartFailed(t, "ClientError", client)
       ELSE IF create_stream /\ create_stream_shards < 1
       THEN StartFailed(t, "Exception", "open")
       ELSE IF create_stream
       THEN /\ pc' = [pc EXCEPT ![t] = "create_stream"]
            /\ client' = "open"
            /\ UNCHANGED <<ctx, backoff_delay, conn_attempts, sleep_left,
                           timeout_left, polled, result, stream_status,
                           conn_lock, reconnect_elapsed, connHist>>
       ELSE EnterPoll(t, "open")
    /\ UNCHANGED <<create_stream, shards, shards_status, initSyncs,
                   justConnected>>
    /\ UNCHANGED othersOfStart

\* _create_stream lines 247-264 with ignore_exists = True, then line 127
CreateStream(t, ans) ==
    /\ pc[t] = "create_stream"
    /\ IF ans \in {"ok", "ResourceInUseException"}
       THEN /\ create_stream' = FALSE
            /\ EnterPoll(t, client)
       ELSE /\ StartFailed(t, IF ans = "LimitExceededException"
                               THEN "StreamShardLimit" ELSE "ClientError",
                           client)
            /\ UNCHANGED create_stream
    /\ UNCHANGED <<shards, shards_status, initSyncs, justConnected>>
    /\ UNCHANGED othersOfStart

\* start() lines 141-155 with get_stream_description (lines 107-119): one
\* answer of describe_stream inside the polling loop
Describe(t, ans) ==
    /\ pc[t] = "describe"
    /\ IF ans.err # "none"
       THEN /\ StartFailed(t, ans.err, client)
            /\ UNCHANGED <<shards, shards_status, initSyncs, justConnected>>
       ELSE IF ans.StreamStatus = "ACTIVE"
       THEN \* lines 144-147, 160
            /\ StartReturned(t, "ACTIVE")
            /\ shards_status' = "INITIALIZE"
            /\ shards' = ans.Shards
            /\ initSyncs' = 0
            /\ justConnected' = TRUE
       ELSE IF ans.StreamStatus \in {"CREATING", "UPDATING"}
       THEN /\ pc' = [pc EXCEPT ![t] = "poll_sleep"]
            /\ polled' = [polled EXCEPT ![t] = TRUE]
            /\ UNCHANGED <<ctx, backoff_delay, conn_attempts, sleep_left,
                           timeout_left, result, connVars, connHist, shards,
                           shards_status, initSyncs, justConnected>>
       ELSE /\ StartFailed(t, "StreamStatusInvalid", client)
            /\ UNCHANGED <<shards, shards_status, initSyncs, justConnected>>
    /\ UNCHANGED create_stream
    /\ UNCHANGED othersOfStart

\* the 0.25 s sleep of the polling loop is over (line 150)
PollWake(t) ==
    /\ pc[t] = "poll_sleep"
    /\ pc' = [pc EXCEPT ![t] = "describe"]
    /\ UNCHANGED <<ctx, backoff_delay, conn_attempts, sleep_left, timeout_left,
                   polled, result, connVars, connHist, shards, shards_status,
                   create_stream, initSyncs, justConnected>>
    /\ UNCHANGED othersOfStart

\* timeout(60) expires while the loop awaits: the CancelledError it throws
\* is swallowed (lines 156-157), cm.expired is true and line 162 goes on to
\* raise StreamStatusInvalid; building its message reads the local
\* stream_status (line 164), which is unbound when no describe has
\* answered yet
PollTimeout(t) ==
    /\ pc[t] \in {"describe", "poll_sleep"}
    /\ timeout_left[t] = 0
    /\ StartFailed(t, IF polled[t] THEN "StreamStatusInvalid"
                      ELSE "UnboundLocalError", client)
    /\ UNCHANGED <<shards, shards_status, create_stream, initSyncs,
                   justConnected>>
    /\ UNCHANGED othersOfStart

\* the task is cancelled from outside while the loop awaits: the
\* CancelledError is swallowed (lines 156-157), cm.expired is false and
\* start() returns
PollCancel(t) ==
    /\ pc[t] \in {"describe", "poll_sleep"}
    /\ StartReturned(t, stream_status)
    /\ UNCHANGED <<shards, shards_status, create_stream, initSyncs,
                   justConnected>>
    /\ UNCHANGED othersOfStart

\* ------------------------------------------------------- the shard side

\* fault variant: the lists themselves are compared, not their lengths
HandlerForContents(fetched, local) ==
    IF fetched = local THEN "none"
    ELSE IF Len(fetched) >= Len(local) THEN "split"
    ELSE "merge"

\* sync_shards lines 307-317: the handler a resync calls, by shard counts
HandlerFor(fetched, local) ==
    IF Len(fetched) = Len(local) THEN "none"
    ELSE IF Len(fetched) > Len(local) THEN "split"
    ELSE "merge"

\* fault variant: only UPDATING puts a resync off
StreamChangingOnlyUpdating(st) == st = "UPDATING"

\* sync_shards line 300: the stream status that puts a due resync off
StreamChanging(st) == st \in {"UPDATING", "CREATING"}

\* fault variant: the refresh interval is not looked at
ResyncDueAlways == shards_status = "SYNCED"

\* sync_shards lines 296-297: a resync is due
ResyncDue ==
    /\ refresh_elapsed > shard_refresh_timer
    /\ shards_status = "SYNCED"

\* fault variant: the refresh timestamp is left as it was
RefreshStampStale == refresh_elapsed

\* set_shard_sync_state records the current time (line 269): the time
\* elapsed since the refresh timestamp afterwards
RefreshStamp == 0

othersOfSync == <<confVars, create_stream, connVars, connLocals, connHist,
                  shards, justConnected>>

\* sync_shards ends (normally, or by the exception res) without touching
\* the shard lock.  The history of the call is dropped with it.
LeaveSync(t, res) ==
    /\ pc' = [pc EXCEPT ![t] = "idle"]
    /\ branch' = [branch EXCEPT ![t] = "none"]
    /\ stream_info' = [stream_info EXCEPT ![t] = NoInfo]
    /\ result' = [result EXCEPT ![t] = res]
    /\ splitCalls' = [splitCalls EXCEPT ![t] = 0]
    /\ mergeCalls' = [mergeCalls EXCEPT ![t] = 0]
    /\ handlerArg' = [handlerArg EXCEPT ![t] = <<>>]
    /\ localAtCompare' = [localAtCompare EXCEPT ![t] = <<>>]

\* fault variant: the shard lock is taken before the description is fetched
FetchFailedHoldingLock(t, err) ==
    /\ LeaveSync(t, err)
    /\ shards_lock' = t
    /\ UNCHANGED <<shards_status, refresh_elapsed, initSyncs>>

\* get_stream_description raises err inside sync_shards (lines 290, 299):
\* nothing catches it there
FetchFailed(t, err) ==
    /\ LeaveSync(t, err)
    /\ UNCHANGED <<shards_status, syncVars, initSyncs>>

\* set_shard_sync_state, lines 266-271, and the return of sync_shards
SetShardSyncState(t) ==
    /\ shards_status' = "SYNCED"
    /\ refresh_elapsed' = RefreshStamp
    /\ shards_lock' = 0
    /\ LeaveSync(t, "ok")

\* a handler is called (lines 292, 314, 317) and runs up to its first await
CallHandler(t, kind, arg) ==
    /\ pc' = [pc EXCEPT ![t] = IF kind = "split" THEN "split_handler"
                                ELSE "merge_handler"]
    /\ splitCalls' = [splitCalls EXCEPT ![t] = IF kind = "split" THEN @ + 1 ELSE @]
    /\ mergeCalls' = [mergeCalls EXCEPT ![t] = IF kind = "merge" THEN @ + 1 ELSE @]
    /\ handlerArg' = [handlerArg EXCEPT ![t] = arg]
    /\ result' = [result EXCEPT ![t] = "none"]

\* sync_shards with the shard lock just acquired: line 292, or lines 305-318
AfterAcquire(t, info) ==
    IF branch[t] = "init"
    THEN /\ CallHandler(t, "split", info.Shards)
         /\ shards_lock' = t
         /\ initSyncs' = initSyncs + 1
         /\ branch' = branch
         /\ stream_info' = [stream_info EXCEPT ![t] = info]
         /\ localAtCompare' = [localAtCompare EXCEPT ![t] = shards]
         /\ UNCHANGED <<shards_status, refresh_elapsed>>
    ELSE /\ UNCHANGED initSyncs
         /\ IF HandlerFor(info.Shards, shards) = "none"
            THEN SetShardSyncState(t)
            ELSE /\ CallHandler(t, HandlerFor(info.Shards, shards), info.Shards)
                 /\ localAtCompare' = [localAtCompare EXCEPT ![t] = shards]
                 /\ shards_lock' = t
                 /\ shards_status' = "RESYNC"
                 /\ branch' = branch
                 /\ stream_info' = [stream_info EXCEPT ![t] = info]
                 /\ UNCHANGED refresh_elapsed

\* fault variant: the handler is called without waiting for the shard lock
AcquireShardsNoWait(t, info) == AfterAcquire(t, info)

\* "await self._shards_lock.acquire()" (lines 291, 304): straight on when
\* the lock is free and nobody waits for it, else the task waits
AcquireShards(t, info) ==
    IF shards_lock = 0 /\ \A u \in Tasks : pc[u] # "sync_lock_wait"
    THEN AfterAcquire(t, info)
    ELSE /\ pc' = [pc EXCEPT ![t] = "sync_lock_wait"]
         /\ stream_info' = [stream_info EXCEPT ![t] = info]
         /\ result' = [result EXCEPT ![t] = "none"]
         /\ UNCHANGED <<branch, shards_status, syncVars, syncHist, initSyncs>>

\* a task calls sync_shards (lines 289-299): up to the await of
\* get_stream_description, or straight to the end when no sync is due
CallSync(t) ==
    /\ pc[t] = "idle"
    /\ IF shards_status = "INITIALIZE" \/ ResyncDue
       THEN /\ pc' = [pc EXCEPT ![t] = "sync_describe"]
            /\ branch' = [branch EXCEPT ![t] =
                            IF shards_status = "INITIALIZE" THEN "init" ELSE "resync"]
            /\ result' = [result EXCEPT ![t] = "none"]
            /\ UNCHANGED <<stream_info, syncHist>>
       ELSE LeaveSync(t, "noop")
    /\ UNCHANGED <<shards_status, syncVars, initSyncs>>
    /\ UNCHANGED othersOfSync

\* get_stream_description answers inside sync_shards (lines 290, 299-304)
SyncDescribe(t, ans) ==
    /\ pc[t] = "sync_describe"
    /\ IF ans.err # "none"
       THEN FetchFailed(t, ans.err)
       ELSE IF branch[t] = "resync" /\ StreamChanging(ans.StreamStatus)
       THEN /\ LeaveSync(t, "skipped")
            /\ UNCHANGED <<shards_status, syncVars, initSyncs>>
       ELSE AcquireShards(t, ans)
    /\ UNCHANGED othersOfSync

\* a waiting task gets the shard lock
SyncAcquire(t) ==
    /\ pc[t] = "sync_lock_wait"
    /\ shards_lock = 0
    /\ AfterAcquire(t, stream_info[t])
    /\ UNCHANGED othersOfSync

\* the handler returns: set_shard_sync_state (lines 293, 318)
HandlerReturn(t) ==
    /\ pc[t] \in {"split_handler", "merge_handler"}
    /\ SetShardSyncState(t)
    /\ UNCHANGED initSyncs
    /\ UNCHANGED othersOfSync

\* the handler raises: the exception leaves sync_shards, past the release
\* in set_shard_sync_state
HandlerRaise(t) ==
    /\ pc[t] \in {"split_handler", "merge_handler"}
    /\ LeaveSync(t, "HandlerError")
    /\ UNCHANGED <<shards_status, syncVars, initSyncs>>
    /\ UNCHANGED othersOfSync

\* ----------------------------------------------------------- the clock

\* time passes while tasks sleep, poll, wait for a lock or are outside any
\* call: a sleeping task wakes when its delay is over and the polling loop
\* is cut when timeout(60) runs out.  One request to the service outside
\* the polling loop, and one run of a handler, take no time at this
\* resolution, and a task waiting for a lock runs as soon as the lock is
\* free.
Timeless == {"get_client", "create_stream", "sync_describe", "split_handler",
             "merge_handler"}

Grow(e, limit) == IF e > limit THEN e ELSE e + TickStep

Tick ==
    /\ \A t \in Tasks :
        /\ pc[t] \notin Timeless
        /\ pc[t] = "conn_wait" => conn_lock # 0
        /\ pc[t] = "sync_lock_wait" => shards_lock # 0
        /\ pc[t] = "reconn_sleep" => sleep_left[t] >= TickStep
        /\ pc[t] \in {"describe", "poll_sleep"} => timeout_left[t] >= TickStep
    /\ reconnect_elapsed' = Grow(reconnect_elapsed, ReconnectCooldown)
    /\ refresh_elapsed' = Grow(refresh_elapsed, shard_refresh_timer)
    /\ sleep_left' = [t \in Tasks |->
                        IF pc[t] = "reconn_sleep" THEN sleep_left[t] - TickStep
                        ELSE sleep_left[t]]
    /\ timeout_left' = [t \in Tasks |->
                        IF pc[t] \in {"describe", "poll_sleep"}
                        THEN timeout_left[t] - TickStep ELSE timeout_left[t]]
    /\ justConnected' = FALSE
    /\ UNCHANGED <<confVars, create_stream, client, stream_status, conn_lock,
                   ctx, backoff_delay, conn_attempts, polled, connHist,
                   shards, shards_status, shards_lock, syncLocals, syncHist,
                   initSyncs, pc, result>>

Next ==
    \/ \E t \in Tasks : CallGetConn(t)
    \/ \E t \in Tasks : AcquireConn(t)
    \/ \E t \in Tasks : WakeReconn(t)
    \/ \E t \in Tasks, ok \in BOOLEAN : GetClient(t, ok)
    \/ \E t \in Tasks, ans \in CreateAnswers : CreateStream(t, ans)
    \/ \E t \in Tasks, ans \in DescribeAnswers : Describe(t, ans)
    \/ \E t \in Tasks : PollWake(t)
    \/ \E t \in Tasks : PollTimeout(t)
    \/ \E t \in Tasks : PollCancel(t)
    \/ \E t \in Tasks : CallSync(t)
    \/ \E t \in Tasks, ans \in DescribeAnswers : SyncDescribe(t, ans)
    \/ \E t \in Tasks : SyncAcquire(t)
    \/ \E t \in Tasks : HandlerReturn(t)
    \/ \E t \in Tasks : HandlerRaise(t)
    \/ Tick

\* the connection side alone, over every configuration
NextConn ==
    \/ \E t \in Tasks : CallGetConn(t)
    \/ \E t \in Tasks : AcquireConn(t)
    \/ \E t \in Tasks : WakeReconn(t)
    \/ \E t \in Tasks, ok \in BOOLEAN : GetClient(t, ok)
    \/ \E t \in Tasks, ans \in CreateAnswers : CreateStream(t, ans)
    \/ \E t \in Tasks, ans \in DescribeAnswers : Describe(t, ans)
    \/ \E t \in Tasks : PollWake(t)
    \/ \E t \in Tasks : PollTimeout(t)
    \/ \E t \in Tasks : PollCancel(t)
    \/ Tick

SpecConn == Init /\ [][NextConn]_vars

Spec == InitBoth /\ [][Next]_vars

\* =============================================================== claims

\* task t's call ends in this step by a normal return
ReturnsOk(t) ==
    /\ pc'[t] = "idle" /\ result'[t] = "ok"
    /\ pc[t] # "idle" \/ result[t] # "ok"

\* task t's call ends in this step by raising err
Raises(t, err) ==
    /\ pc'[t] = "idle" /\ result'[t] = err
    /\ pc[t] # "idle" \/ result[t] # err

\* task t is inside the startup sequence start()
InStart(t) == pc[t] \in {"get_client", "create_stream", "describe", "poll_sleep"}

\* the number of the reconnect loop's attempt that task t sleeps before
AttemptNo(t) == attempts[t] + 1

\* C1 (as claimed): a task that waited for the connection lock while
\* another task ran a reconnect cycle started by the elapsed cooldown, and
\* got the lock after that cycle had re-established the connection, finds
\* the cooldown not elapsed and starts no reconnect cycle of its own.
C1_OneReconnectCycle ==
    \A t \in Tasks : waited[t] => pc[t] = "conn_wait"

\* C2 (as claimed): whenever a call of get_conn returns normally, the
\* connection state is ACTIVE.  Stated for the calls that do not return
\* out of the polling loop, so that no cancellation from outside is part
\* of the case.
C2_ReturnsOnlyActive ==
    [][\A t \in Tasks :
        ReturnsOk(t) /\ pc[t] \notin {"describe", "poll_sleep"} =>
            stream_status' = "ACTIVE"]_vars

\* C3: a call of get_conn never goes on after its startup sequence failed
\* with StreamDoesNotExist: no call in progress (sleeping before a further
\* attempt, or in one) has StreamDoesNotExist as its last startup failure,
\* whatever retry_limit and expo_backoff are; and the step that raises it
\* ends the call, frees the connection lock and starts no new loop turn.
C3_StreamDoesNotExistEndsCall ==
    /\ [](\A t \in Tasks : lastErr[t] # "StreamDoesNotExist")
    /\ [][\A t \in Tasks : Raises(t, "StreamDoesNotExist") =>
            /\ InStart(t)
            /\ conn_lock' = 0
            /\ reconnect_elapsed' = reconnect_elapsed
            /\ sleep_left'[t] = 0]_vars

\* C3 witness: StreamDoesNotExist raised out of the reconnect loop, with a
\* retry limit and exponential backoff configured
C3_Witness ==
    \E t \in Tasks :
        /\ pc[t] = "idle" /\ result[t] = "StreamDoesNotExist"
        /\ stream_status = "RECONNECT"
        /\ retry_limit = <<3>> /\ expo_backoff = 5

\* C4 (as claimed): a call of get_conn never goes on (to a backoff sleep
\* and a further startup attempt) after stream creation failed with a shard
\* count below one or with StreamShardLimit.
C4_CreationFailuresNotRetried ==
    \A t \in Tasks : lastErr[t] \notin {"Exception", "StreamShardLimit"}

\* the startup attempts of task t's call that have failed so far: those of
\* the reconnect loop and, when the loop was entered from INITIALIZE, the
\* first startup before it
FailedStartups(t) == fails[t] + (IF via[t] = "init" THEN 1 ELSE 0)

\* C5 (as claimed): with retry limit L, ConnectionError is raised exactly
\* when the (L+1)-th failed startup attempt of the call happens, L failures
\* having been tolerated.
C5_RaisesAtAttemptLPlus1 ==
    [][\A t \in Tasks : Raises(t, "ConnectionError") =>
            FailedStartups(t) + 1 = retry_limit[1] + 1]_vars

\* C5 (amended): with retry limit L >= 1, ConnectionError is raised exactly
\* when the L-th attempt of the reconnect loop fails with a retryable
\* error: L attempts were started in the loop, all L failed, and the loop
\* never starts more than L attempts.  Only a call that entered the loop
\* through a failed first startup has L+1 failed startups by then.
C5_RaisesAtAttemptL ==
    /\ [](\A t \in Tasks : IsInt(retry_limit) => attempts[t] <= retry_limit[1])
    /\ [][\A t \in Tasks : Raises(t, "ConnectionError") =>
            /\ IsInt(retry_limit)
            /\ ctx[t] = "reconn" /\ InStart(t)
            /\ fails[t] + 1 = retry_limit[1]
            /\ attempts[t] = retry_limit[1]
            /\ FailedStartups(t) + 1 = retry_limit[1] + 1 <=> via[t] = "init"]_vars

\* C5 witness: with L = 3 a reconnect started by the elapsed cooldown has
\* failed twice and is in its third attempt, whose failure raises
C5_Witness ==
    \E t \in Tasks :
        /\ retry_limit = <<3>> /\ via[t] = "cooldown"
        /\ InStart(t) /\ fails[t] = 2 /\ attempts[t] = 3
        /\ Exhausted(conn_attempts[t] + 1)

Min(a, b) == IF a <= b THEN a ELSE b

\* the delays the spec lists for base 5 and ceiling 120
ListedDelays == <<5, 20, 45, 80, 120, 120>>

\* C6 (as claimed): with exponential backoff b and ceiling c, the delay
\* slept before the n-th attempt is min(n^2 * b, c), for every n >= 1.
C6_DelayIsSquareLaw ==
    \A t \in Tasks :
        pc[t] = "reconn_sleep" /\ expo_backoff # 0 =>
            backoff_delay[t] =
                Min(AttemptNo(t) * AttemptNo(t) * expo_backoff, expo_backoff_limit)

\* C6 (amended): the delay before the first attempt is always 5 s; with
\* exponential backoff b and ceiling c the delay before the n-th attempt is
\* min(n^2 * b, c) for every n >= 2; for b = 5, c = 120 the delays are
\* 5, 20, 45, 80, 120, 120; no delay exceeds the larger of c and 5 s, and
\* the sleep lasts the delay.
C6_DelayAfterFirst ==
    \A t \in Tasks :
        pc[t] = "reconn_sleep" =>
            /\ sleep_left[t] <= backoff_delay[t]
            /\ AttemptNo(t) = 1 => backoff_delay[t] = InitialBackoff
            /\ AttemptNo(t) >= 2 /\ expo_backoff # 0 =>
                backoff_delay[t] =
                    Min(AttemptNo(t) * AttemptNo(t) * expo_backoff, expo_backoff_limit)
            /\ expo_backoff = 5 /\ expo_backoff_limit = 120
               /\ AttemptNo(t) <= Len(ListedDelays) =>
                    backoff_delay[t] = ListedDelays[AttemptNo(t)]
            /\ expo_backoff # 0 =>
                backoff_delay[t] <= IF expo_backoff_limit >= InitialBackoff
                                    THEN expo_backoff_limit ELSE InitialBackoff

C6_Witness ==
    \E t \in Tasks :
        /\ pc[t] = "reconn_sleep" /\ expo_backoff = 5
        /\ AttemptNo(t) = 6 /\ backoff_delay[t] = 120 /\ sleep_left[t] = 0

\* C7: with no retry limit the reconnect loop never raises ConnectionError:
\* every failed attempt other than StreamDoesNotExist is followed by the
\* next backoff sleep, and the attempt that sees the stream ACTIVE makes
\* get_conn return normally with the connection state ACTIVE.
C7_UnboundedRetries ==
    [][retry_limit = NoLimit =>
        \A t \in Tasks :
            /\ ~Raises(t, "ConnectionError")
            /\ ctx[t] = "reconn" /\ InStart(t) /\ ~InStart(t)' =>
                \/ pc'[t] = "reconn_sleep" /\ fails'[t] = fails[t] + 1
                \/ Raises(t, "StreamDoesNotExist")
                \/ ReturnsOk(t)
            /\ ctx[t] = "reconn" /\ pc[t] = "describe"
               /\ stream_status' = "ACTIVE" =>
                    ReturnsOk(t) /\ conn_lock' = 0]_vars

\* C7 witness: with no retry limit, a task whose attempts 1..N-1 failed is
\* in attempt N, and the stream answers ACTIVE there (N = MaxAttempts)
C7_Witness ==
    \E t \in Tasks :
        /\ retry_limit = NoLimit
        /\ pc[t] = "describe" /\ ctx[t] = "reconn"
        /\ fails[t] = MaxAttempts - 1 /\ attempts[t] = MaxAttempts

\* C8 (as claimed): between two successful startups, the callers that see
\* the shard sync state INITIALIZE invoke the split handler once in all.
C8_SingleInitialSync ==
    initSyncs <= 1

\* C9: a sync_shards call that took the INITIALIZE branch and returns has
\* invoked the split handler exactly once, with the shard list it fetched,
\* and never the merge handler; as it returns the shard sync state is
\* SYNCED, the refresh timestamp is the current time and the shard lock is
\* free.
C9_InitialSync ==
    /\ [](\A t \in Tasks : branch[t] = "init" =>
            /\ pc[t] # "merge_handler" /\ mergeCalls[t] = 0
            /\ pc[t] = "split_handler" =>
                /\ splitCalls[t] = 1
                /\ handlerArg[t] = stream_info[t].Shards
                /\ shards_lock = t)
    /\ [][\A t \in Tasks : branch[t] = "init" /\ ReturnsOk(t) =>
            /\ pc[t] = "split_handler"
            /\ shards_status' = "SYNCED"
            /\ refresh_elapsed' = 0
            /\ shards_lock' = 0]_vars

\* C9 witness: the initial sync of one startup has completed, some time
\* after the construction of the instance
C9_Witness ==
    /\ initSyncs = 1 /\ shards_status = "SYNCED"
    /\ refresh_elapsed = 0 /\ reconnect_elapsed > 0 /\ shards_lock = 0
    /\ \E t \in Tasks : pc[t] = "idle" /\ result[t] = "ok"

\* C10: in a resync the handler is chosen by the shard counts alone: a
\* running split handler means more shards were fetched than the local set
\* holds, a running merge handler means fewer, each got the fetched list and
\* is the only handler of the call; a task that gets the shard lock with
\* a longer list calls the split handler, with a shorter one the merge
\* handler, and with a list of the same length it calls none and returns.
C10_HandlerByCount ==
    /\ [](\A t \in Tasks : branch[t] = "resync" =>
            /\ pc[t] = "split_handler" =>
                /\ Len(handlerArg[t]) > Len(localAtCompare[t])
                /\ splitCalls[t] = 1 /\ mergeCalls[t] = 0
            /\ pc[t] = "merge_handler" =>
                /\ Len(handlerArg[t]) < Len(localAtCompare[t])
                /\ splitCalls[t] = 0 /\ mergeCalls[t] = 1
            /\ pc[t] \in {"split_handler", "merge_handler"} =>
                handlerArg[t] = stream_info[t].Shards)
    /\ [][\A t \in Tasks :
            branch[t] = "resync" /\ pc[t] = "sync_lock_wait"
            /\ pc'[t] # "sync_lock_wait" =>
                LET fetched == Len(stream_info[t].Shards)
                    local == Len(shards)
                IN  /\ fetched > local => pc'[t] = "split_handler"
                    /\ fetched < local => pc'[t] = "merge_handler"
                    /\ fetched = local => ReturnsOk(t)]_vars

\* C10 witness: a resync runs the merge handler on a fetched list shorter
\* than the local shard set
C10_Witness ==
    \E t \in Tasks :
        /\ branch[t] = "resync" /\ pc[t] = "merge_handler"
        /\ handlerArg[t] = <<"s1">> /\ Len(shards) = 2

\* C11 (as claimed): when a sync_shards call that ran a handler returns,
\* the local shard set is the shard list the call fetched.
C11_ShardsReplaced ==
    [][\A t \in Tasks :
        pc[t] \in {"split_handler", "merge_handler"} /\ ReturnsOk(t) =>
            shards' = stream_info[t].Shards]_vars

\* task t is inside sync_shards, past its first test
InSync(t) ==
    pc[t] \in {"sync_describe", "sync_lock_wait", "split_handler", "merge_handler"}

\* C12: while the shard sync state is SYNCED and the refresh interval has
\* not elapsed, no call gets past the tests of sync_shards (no description
\* is fetched, no lock taken, no handler called), and a sync_shards call
\* that finds nothing due returns at once and leaves the shard set, the
\* shard sync state, the refresh timestamp and the shard lock as they were.
C12_NoopBeforeInterval ==
    /\ [][\A t \in Tasks :
            /\ pc[t] = "idle" /\ shards_status = "SYNCED"
            /\ refresh_elapsed <= shard_refresh_timer
            => ~InSync(t)']_vars
    /\ [][\A t \in Tasks : Raises(t, "noop") =>
            /\ pc[t] = "idle"
            /\ shards_status # "INITIALIZE" /\ ~ResyncDue
            /\ UNCHANGED <<shards, shards_status, refresh_elapsed, shards_lock,
                           splitCalls, mergeCalls, initSyncs>>]_vars

\* C12 witness: the only task that ever made a call has connected,
\* synchronised and then, some time later but within the refresh
\* interval, called sync_shards again
C12_Witness ==
    \E t \in Tasks :
        /\ pc[t] = "idle" /\ result[t] = "noop"
        /\ \A u \in Tasks \ {t} : pc[u] = "idle" /\ result[u] = "none"
        /\ shards_status = "SYNCED" /\ shards_lock = 0
        /\ refresh_elapsed > 0 /\ refresh_elapsed <= shard_refresh_timer

\* C13: a resync whose fetched stream status is UPDATING or CREATING goes
\* no further: no resync call with such a description waits for the shard
\* lock or runs a handler; the call returns from the fetch and leaves the
\* shard lock, the shard sync state, the shard set and the refresh
\* timestamp as they were, so a resync that was due stays due.
C13_ResyncPutOff ==
    /\ [](\A t \in Tasks :
            branch[t] = "resync"
            /\ pc[t] \in {"sync_lock_wait", "split_handler", "merge_handler"}
            => stream_info[t].StreamStatus \notin {"UPDATING", "CREATING"})
    /\ [][\A t \in Tasks : Raises(t, "skipped") =>
            /\ pc[t] = "sync_describe" /\ branch[t] = "resync"
            /\ UNCHANGED <<shards, shards_status, refresh_elapsed, shards_lock,
                           splitCalls, mergeCalls, initSyncs>>
            /\ ResyncDue => ResyncDue']_vars

\* C13 witness: the only task that ever made a call has had a due resync
\* put off; the state is still SYNCED and the resync still due
C13_Witness ==
    \E t \in Tasks :
        /\ pc[t] = "idle" /\ result[t] = "skipped"
        /\ \A u \in Tasks \ {t} : pc[u] = "idle" /\ result[u] = "none"
        /\ ResyncDue /\ shards_lock = 0

\* C14 (as claimed): a get_conn call made while the connection state is
\* ACTIVE and within the cooldown since the last successful (re)connection
\* starts no reconnect.  Stated for the calls made before any time at all
\* has passed since a startup saw the stream ACTIVE: no reconnect cycle
\* started by the cooldown test is in progress then.
C14_NoReconnectWithinCooldown ==
    justConnected => \A t \in Tasks : via[t] # "cooldown"

\* C15: a sync_shards call that is awaiting the stream description has
\* invoked no handler, and when the fetch fails the call ends there with
\* the error of the fetch: the shard lock, the shard sync state, the shard
\* set and the refresh timestamp are as they were.
C15_FetchFailureSurfaces ==
    /\ [](\A t \in Tasks :
            pc[t] = "sync_describe" => splitCalls[t] = 0 /\ mergeCalls[t] = 0)
    /\ [][\A t \in Tasks :
            /\ pc[t] = "sync_describe" /\ pc'[t] = "idle"
            /\ result'[t] \notin {"ok", "skipped"}
            => /\ result'[t] \in {"StreamDoesNotExist", "ClientError"}
               /\ UNCHANGED <<shards, shards_status, refresh_elapsed,
                              shards_lock, initSyncs>>]_vars

\* C15 witness: the only task that ever made a call has connected and
\* synchronised, and its due resync ended with StreamDoesNotExist
C15_Witness ==
    \E t \in Tasks :
        /\ pc[t] = "idle" /\ result[t] = "StreamDoesNotExist"
        /\ \A u \in Tasks \ {t} : pc[u] = "idle" /\ result[u] = "none"
        /\ stream_status = "ACTIVE" /\ ResyncDue /\ shards_lock = 0

\* task t is running a split or merge handler
InHandler(t) == pc[t] \in {"split_handler", "merge_handler"}

\* C16: a task that runs a handler holds the shard lock, so at most one
\* handler runs at any time; and while a task runs a handler the lock
\* leaves it only in the step in which the handler has returned and the
\* shard sync state is set to SYNCED.
C16_HandlersUnderLock ==
    /\ [](\A t \in Tasks : InHandler(t) => shards_lock = t)
    /\ [](\A t, u \in Tasks : InHandler(t) /\ InHandler(u) => t = u)
    /\ [][\A t \in Tasks : InHandler(t) /\ shards_lock' # t =>
            /\ ReturnsOk(t)
            /\ shards_status' = "SYNCED"
            /\ shards_lock' = 0]_vars

\* C16 witness: one task runs a handler while another, which has fetched
\* its description too, waits for the shard lock
C16_Witness ==
    \E t, u \in Tasks :
        /\ InHandler(t) /\ shards_lock = t
        /\ pc[u] = "sync_lock_wait"

\* C17 (as claimed): the shard sync state and the shard set are changed
\* only by the task that holds the shard lock.  Stated for a sync in
\* flight: while a task holds the lock and runs a handler, neither changes
\* under it.
C17_MutationsUnderLock ==
    [][\A t \in Tasks :
        InHandler(t) /\ shards_lock = t /\ InHandler(t)' =>
            UNCHANGED <<shards, shards_status>>]_vars

\* the transitions of the shard sync state that the spec lists
ListedTransitions ==
    {<<"WAIT", "INITIALIZE">>, <<"INITIALIZE", "SYNCED">>,
     <<"SYNCED", "RESYNC">>, <<"RESYNC", "SYNCED">>}

\* C18 (as claimed): the shard sync state changes only along the listed
\* transitions.
C18_ListedTransitionsOnly ==
    [][shards_status' # shards_status =>
        <<shards_status, shards_status'>> \in ListedTransitions]_vars

\* C19 (as claimed): whenever no sync_shards call is in progress the shard
\* lock is free.
C19_LockFreeWhenNoSync ==
    (\A t \in Tasks : ~InSync(t)) => shards_lock = 0

\* C20 (as claimed): the startup sequence returns normally only when a
\* describe answer ACTIVE has been seen, so a get_conn call that returns
\* out of the startup sequence leaves the connection state ACTIVE.
C20_StartReturnsOnlyActive ==
    [][\A t \in Tasks : InStart(t) /\ ReturnsOk(t) =>
            stream_status' = "ACTIVE"]_vars

====
